---- MODULE Spec2Model ----
(***************************************************************************)
(* Model of opentelemetry-datadog-cloudflare:                              *)
(*   - WASMWorkerSpanProcessor (src/src/exporter/mod.rs): the span buffer  *)
(*     behind an RwLock, on_end, the async and the sync force_flush,       *)
(*     shutdown, and the exporter behind a futures Mutex;                  *)
(*   - DatadogPropagator (src/src/lib.rs): extract and inject of the three *)
(*     x-datadog-* headers, with u128_to_u64s.                             *)
(*   - DatadogExporter (src/src/exporter/mod.rs): export, which groups a   *)
(*     batch into traces, builds the payload and the request, and sends.   *)
(* Identifiers are byte arrays and header values are sequences of          *)
(* characters, so that decimal parsing and formatting are computed with    *)
(* their 64-bit range.                                                     *)
(***************************************************************************)
EXTENDS Integers, Sequences, FiniteSets, TLC

\* ------------------------------------------------------------------------
\* Bounds of the model
\* ------------------------------------------------------------------------
\* number of spans the instrumentation ends (on_end calls)
MaxSpans == 3
\* largest flush size given to with_flush_size
MaxFlushSize == 1
\* number of tasks that call the async force_flush
NumFlushers == 2
\* number of threads that call on_end
NumProducers == 1

Flushers == 1..NumFlushers
Producers == 1..NumProducers

\* holder of the RwLock write guard over the span buffer
NoHolder == <<>>
FlushHolder(f) == <<"force_flush", f>>
OnEndHolder(p) == <<"on_end", p>>

\* what a call of the processor gave back to its caller
NoReturn == <<>>
FlushReturn(f, result) == <<"SpanProcessExt::force_flush", f, result>>
SyncFlushReturn(result) == <<"SpanProcessor::force_flush", 0, result>>
ShutdownReturn(result) == <<"SpanProcessor::shutdown", 0, result>>

VARIABLES
    flush_size,     \* WASMWorkerSpanProcessor.flush_size
    spans,          \* WASMWorkerSpanProcessor.spans: the Vec<SpanData>
    spansLock,      \* holder of the write guard of spans
    poisoned,       \* the RwLock is poisoned
    exporterLock,   \* holder of the exporter Mutex (0: free)
    fpc,            \* position of each async force_flush call
    to_export,      \* the batch each async force_flush drained
    ppc,            \* position of each on_end call
    pspan,          \* the span each on_end call carries
    created,        \* number of spans passed to on_end so far
    returned,       \* the call that returned last and what it returned
    reported,       \* call sites that called global::handle_error
    accepted,       \* history: spans in the order on_end pushed them
    handed,         \* history: spans in the order given to export calls
    succeeded,      \* history: spans whose export call returned Ok
    failed,         \* history: spans whose export call returned Err
    drain_log       \* history: the last two drains since the last push

procVars == <<flush_size, spans, spansLock, poisoned, exporterLock, fpc,
              to_export, ppc, pspan, created, returned, reported, accepted,
              handed, succeeded, failed, drain_log>>

VARIABLES
    little,     \* cfg!(target_endian = "little") of the build
    carrier,    \* the header map given to extract and inject
    cx,         \* the span context: extracted, or to be injected
    prop_pc,    \* which propagator calls were made
    carrier0,   \* history: the header map at the start
    cx0         \* history: the span context at the start

propVars == <<little, carrier, cx, prop_pc, carrier0, cx0>>

VARIABLES
    batch,          \* the Vec<SpanData> given to DatadogExporter::export
    key_valid,      \* DatadogExporter.key is a legal header value
    export_pc,      \* position of the export call
    req,            \* the request that export built
    sends,          \* number of client.send calls of the export call
    export_result   \* what the export call returned

expVars == <<batch, key_valid, export_pc, req, sends, export_result>>

vars == <<procVars, propVars, expVars>>

\* ------------------------------------------------------------------------
\* Sequence helpers
\* ------------------------------------------------------------------------
Range(s) == {s[i] : i \in 1..Len(s)}

Count(s, x) == Cardinality({i \in 1..Len(s) : s[i] = x})

Min(a, b) == IF a < b THEN a ELSE b

\* keep the last two entries of a log
LastTwo(s) == IF Len(s) > 2 THEN SubSeq(s, Len(s) - 1, Len(s)) ELSE s

\* ------------------------------------------------------------------------
\* WASMWorkerSpanProcessor: the buffer operations
\* ------------------------------------------------------------------------
\* mutant: the threshold is ignored and the whole buffer is drained
ExportSizeAll(len, fs) == len

\* export_size of force_flush
ExportSize(len, fs) == IF len > fs THEN fs ELSE len

\* lock.drain(0..export_size).collect(): the drained elements
\* mutant: the batch is the newest spans of the buffer
DrainedNewest(buf, n) == SubSeq(buf, Len(buf) - n + 1, Len(buf))

Drained(buf, n) == SubSeq(buf, 1, n)

\* mutant: the drain empties the Vec (drain(..)) but only the prefix is kept
RemainingNone(buf, n) == <<>>

\* mutant: the prefix is copied and nothing is removed from the Vec
RemainingAll(buf, n) == buf

\* what lock.drain(0..export_size) leaves in the Vec
Remaining(buf, n) == SubSeq(buf, n + 1, Len(buf))

\* mutant: the span is inserted at the front of the Vec
PushFront(buf, s) == <<s>> \o buf

\* lock.push(span)
Push(buf, s) == Append(buf, s)

\* WASMWorkerSpanProcessor::new(exporter, flush_size)
ProcNew(fs) ==
    /\ flush_size = fs
    /\ spans = <<>>
    /\ spansLock = NoHolder
    /\ poisoned = FALSE
    /\ exporterLock = 0
    /\ fpc = [f \in Flushers |-> "idle"]
    /\ to_export = [f \in Flushers |-> <<>>]
    /\ ppc = [p \in Producers |-> "idle"]
    /\ pspan = [p \in Producers |-> 0]
    /\ created = 0
    /\ returned = NoReturn
    /\ reported = {}
    /\ accepted = <<>>
    /\ handed = <<>>
    /\ succeeded = {}
    /\ failed = {}
    /\ drain_log = <<>>

\* install(): the flush size is what with_flush_size was given
ProcInit == \E fs \in 0..MaxFlushSize : ProcNew(fs)

\* on_end: self.spans.write() returns the guard
OnEndLock(p) ==
    /\ UNCHANGED <<propVars, expVars>>
    /\ ppc[p] = "idle"
    /\ created < MaxSpans
    /\ spansLock = NoHolder
    /\ ~poisoned
    /\ created' = created + 1
    /\ pspan' = [pspan EXCEPT ![p] = created + 1]
    /\ ppc' = [ppc EXCEPT ![p] = "locked"]
    /\ spansLock' = OnEndHolder(p)
    /\ UNCHANGED <<flush_size, spans, poisoned, exporterLock, fpc, to_export,
                   returned, reported, accepted, handed, succeeded, failed,
                   drain_log>>

\* mutant: on_end swallows the lock error without reporting it
OnEndLockErrSilent(p) ==
    /\ UNCHANGED <<propVars, expVars>>
    /\ ppc[p] = "idle"
    /\ created < MaxSpans
    /\ spansLock = NoHolder
    /\ poisoned
    /\ created' = created + 1
    /\ UNCHANGED <<flush_size, spans, spansLock, poisoned, exporterLock, fpc,
                   to_export, ppc, pspan, returned, reported, accepted, handed,
                   succeeded, failed, drain_log>>

\* on_end: self.spans.write() returns Err (poisoned): handle_error, return
OnEndLockErr(p) ==
    /\ UNCHANGED <<propVars, expVars>>
    /\ ppc[p] = "idle"
    /\ created < MaxSpans
    /\ spansLock = NoHolder
    /\ poisoned
    /\ created' = created + 1
    /\ reported' = reported \cup {"on_end"}
    /\ UNCHANGED <<flush_size, spans, spansLock, poisoned, exporterLock, fpc,
                   to_export, ppc, pspan, returned, accepted, handed,
                   succeeded, failed, drain_log>>

\* on_end: lock.push(span), then the guard is dropped
OnEndPush(p) ==
    /\ UNCHANGED <<propVars, expVars>>
    /\ ppc[p] = "locked"
    /\ spans' = Push(spans, pspan[p])
    /\ accepted' = Append(accepted, pspan[p])
    /\ drain_log' = <<>>
    /\ spansLock' = NoHolder
    /\ ppc' = [ppc EXCEPT ![p] = "idle"]
    /\ pspan' = [pspan EXCEPT ![p] = 0]
    /\ UNCHANGED <<flush_size, poisoned, exporterLock, fpc, to_export, created,
                   returned, reported, handed, succeeded, failed>>

\* on_end: lock.push(span) panics (capacity overflow); the guard is dropped
\* while unwinding, which poisons the RwLock; the span is not appended
OnEndPanic(p) ==
    /\ UNCHANGED <<propVars, expVars>>
    /\ ppc[p] = "locked"
    /\ poisoned' = TRUE
    /\ spansLock' = NoHolder
    /\ ppc' = [ppc EXCEPT ![p] = "idle"]
    /\ pspan' = [pspan EXCEPT ![p] = 0]
    /\ UNCHANGED <<flush_size, spans, exporterLock, fpc, to_export, created,
                   returned, reported, accepted, handed, succeeded, failed,
                   drain_log>>

\* async force_flush: self.spans.write() returns the guard
FlushLock(f) ==
    /\ UNCHANGED <<propVars, expVars>>
    /\ fpc[f] = "idle"
    /\ spansLock = NoHolder
    /\ ~poisoned
    /\ spansLock' = FlushHolder(f)
    /\ fpc' = [fpc EXCEPT ![f] = "locked"]
    /\ UNCHANGED <<flush_size, spans, poisoned, exporterLock, to_export, ppc,
                   pspan, created, returned, reported, accepted, handed,
                   succeeded, failed, drain_log>>

\* mutant: the async force_flush returns the lock error without reporting it
FlushLockErrSilent(f) ==
    /\ UNCHANGED <<propVars, expVars>>
    /\ fpc[f] = "idle"
    /\ spansLock = NoHolder
    /\ poisoned
    /\ returned' = FlushReturn(f, "lock_err")
    /\ UNCHANGED <<flush_size, spans, spansLock, poisoned, exporterLock, fpc,
                   to_export, ppc, pspan, created, reported, accepted, handed,
                   succeeded, failed, drain_log>>

\* async force_flush: self.spans.write() returns Err: handle_error and
\* return Err("unable to obtain lock to flush")
FlushLockErr(f) ==
    /\ UNCHANGED <<propVars, expVars>>
    /\ fpc[f] = "idle"
    /\ spansLock = NoHolder
    /\ poisoned
    /\ reported' = reported \cup {"force_flush"}
    /\ returned' = FlushReturn(f, "lock_err")
    /\ UNCHANGED <<flush_size, spans, spansLock, poisoned, exporterLock, fpc,
                   to_export, ppc, pspan, created, accepted, handed, succeeded,
                   failed, drain_log>>

\* mutant: the write guard is not dropped after the drain but lives on
\* across the awaits
FlushDrainHoldingGuard(f) ==
    /\ UNCHANGED <<propVars, expVars>>
    /\ fpc[f] = "locked"
    /\ LET export_size == ExportSize(Len(spans), flush_size)
       IN /\ to_export' = [to_export EXCEPT ![f] = Drained(spans, export_size)]
          /\ spans' = Remaining(spans, export_size)
          /\ drain_log' = LastTwo(Append(drain_log,
                 [before |-> spans,
                  batch |-> Drained(spans, export_size),
                  after |-> Remaining(spans, export_size)]))
    /\ fpc' = [fpc EXCEPT ![f] = "drained"]
    /\ UNCHANGED <<flush_size, spansLock, poisoned, exporterLock, ppc, pspan,
                   created, returned, reported, accepted, handed, succeeded,
                   failed>>

\* async force_flush: export_size, drain(0..export_size).collect(), and the
\* end of the block, which drops the guard
FlushDrain(f) ==
    /\ UNCHANGED <<propVars, expVars>>
    /\ fpc[f] = "locked"
    /\ LET export_size == ExportSize(Len(spans), flush_size)
       IN /\ to_export' = [to_export EXCEPT ![f] = Drained(spans, export_size)]
          /\ spans' = Remaining(spans, export_size)
          /\ drain_log' = LastTwo(Append(drain_log,
                 [before |-> spans,
                  batch |-> Drained(spans, export_size),
                  after |-> Remaining(spans, export_size)]))
    /\ spansLock' = NoHolder
    /\ fpc' = [fpc EXCEPT ![f] = "drained"]
    /\ UNCHANGED <<flush_size, poisoned, exporterLock, ppc, pspan, created,
                   returned, reported, accepted, handed, succeeded, failed>>

\* mutant: the flush call exports without waiting for the exporter mutex
FlushExporterLockNoWait(f) ==
    /\ UNCHANGED <<propVars, expVars>>
    /\ fpc[f] = "drained"
    /\ exporterLock' = f
    /\ fpc' = [fpc EXCEPT ![f] = "exporting"]
    /\ handed' = handed \o to_export[f]
    /\ UNCHANGED <<flush_size, spans, spansLock, poisoned, to_export, ppc,
                   pspan, created, returned, reported, accepted, succeeded,
                   failed, drain_log>>

\* mutant: the flush call takes the exporter mutex and exports nothing
FlushExporterLockNoExport(f) ==
    /\ UNCHANGED <<propVars, expVars>>
    /\ fpc[f] = "drained"
    /\ exporterLock = 0
    /\ exporterLock' = f
    /\ fpc' = [fpc EXCEPT ![f] = "exporting"]
    /\ UNCHANGED <<flush_size, spans, spansLock, poisoned, to_export, ppc,
                   pspan, created, returned, reported, accepted, handed,
                   succeeded, failed, drain_log>>

\* async force_flush: self.exporter.lock().await completes and
\* exporter.export(to_export) is called: the batch is handed to the exporter
FlushExporterLock(f) ==
    /\ UNCHANGED <<propVars, expVars>>
    /\ fpc[f] = "drained"
    /\ exporterLock = 0
    /\ exporterLock' = f
    /\ fpc' = [fpc EXCEPT ![f] = "exporting"]
    /\ handed' = handed \o to_export[f]
    /\ UNCHANGED <<flush_size, spans, spansLock, poisoned, to_export, ppc,
                   pspan, created, returned, reported, accepted, succeeded,
                   failed, drain_log>>

\* mutant: after a failed export the batch is put back into the buffer
ExportReturnRequeue(f, ok) ==
    /\ UNCHANGED <<propVars, expVars>>
    /\ fpc[f] = "exporting"
    /\ exporterLock' = 0
    /\ fpc' = [fpc EXCEPT ![f] = "idle"]
    /\ returned' = FlushReturn(f, IF ok THEN "ok" ELSE "export_err")
    /\ succeeded' = IF ok THEN succeeded \cup Range(to_export[f]) ELSE succeeded
    /\ failed' = IF ok THEN failed ELSE failed \cup Range(to_export[f])
    /\ spans' = IF ok THEN spans ELSE to_export[f] \o spans
    /\ to_export' = [to_export EXCEPT ![f] = <<>>]
    /\ UNCHANGED <<flush_size, spansLock, poisoned, ppc, pspan, created,
                   reported, accepted, handed, drain_log>>

\* DatadogExporter::export returns: client.send(req).await gave a response
\* (ok) or an error; force_flush returns that result and drops the exporter
\* guard; the batch was moved into export and is gone
ExportReturn(f, ok) ==
    /\ UNCHANGED <<propVars, expVars>>
    /\ fpc[f] = "exporting"
    /\ exporterLock' = 0
    /\ fpc' = [fpc EXCEPT ![f] = "idle"]
    /\ returned' = FlushReturn(f, IF ok THEN "ok" ELSE "export_err")
    /\ succeeded' = IF ok THEN succeeded \cup Range(to_export[f]) ELSE succeeded
    /\ failed' = IF ok THEN failed ELSE failed \cup Range(to_export[f])
    /\ to_export' = [to_export EXCEPT ![f] = <<>>]
    /\ UNCHANGED <<flush_size, spans, spansLock, poisoned, ppc, pspan, created,
                   reported, accepted, handed, drain_log>>

\* mutant: the sync force_flush takes the buffer and exports it
SyncForceFlushDrains ==
    /\ UNCHANGED <<propVars, expVars>>
    /\ spansLock = NoHolder
    /\ spans' = <<>>
    /\ handed' = handed \o spans
    /\ succeeded' = succeeded \cup Range(spans)
    /\ returned' = SyncFlushReturn("ok")
    /\ UNCHANGED <<flush_size, spansLock, poisoned, exporterLock, fpc,
                   to_export, ppc, pspan, created, reported, accepted, failed,
                   drain_log>>

\* SpanProcessor::force_flush (sync): always Err
SyncForceFlush ==
    /\ UNCHANGED <<propVars, expVars>>
    /\ returned' = SyncFlushReturn("unsupported")
    /\ UNCHANGED <<flush_size, spans, spansLock, poisoned, exporterLock, fpc,
                   to_export, ppc, pspan, created, reported, accepted, handed,
                   succeeded, failed, drain_log>>

\* mutant: shutdown drops the spans that are still buffered
ShutdownClears ==
    /\ UNCHANGED <<propVars, expVars>>
    /\ \A f \in Flushers : fpc[f] = "idle"
    /\ \A p \in Producers : ppc[p] = "idle"
    /\ spans' = <<>>
    /\ returned' = ShutdownReturn("ok")
    /\ UNCHANGED <<flush_size, spansLock, poisoned, exporterLock, fpc,
                   to_export, ppc, pspan, created, reported, accepted, handed,
                   succeeded, failed, drain_log>>

\* SpanProcessor::shutdown(&mut self): Ok(()); the exclusive borrow means no
\* other call on the processor is in progress
Shutdown ==
    /\ UNCHANGED <<propVars, expVars>>
    /\ \A f \in Flushers : fpc[f] = "idle"
    /\ \A p \in Producers : ppc[p] = "idle"
    /\ returned' = ShutdownReturn("ok")
    /\ UNCHANGED <<flush_size, spans, spansLock, poisoned, exporterLock, fpc,
                   to_export, ppc, pspan, created, reported, accepted, handed,
                   succeeded, failed, drain_log>>

ProcNext ==
    \/ \E p \in Producers : OnEndLock(p)
    \/ \E p \in Producers : OnEndLockErr(p)
    \/ \E p \in Producers : OnEndPush(p)
    \/ \E p \in Producers : OnEndPanic(p)
    \/ \E f \in Flushers : FlushLock(f)
    \/ \E f \in Flushers : FlushLockErr(f)
    \/ \E f \in Flushers : FlushDrain(f)
    \/ \E f \in Flushers : FlushExporterLock(f)
    \/ \E f \in Flushers : \E ok \in BOOLEAN : ExportReturn(f, ok)
    \/ SyncForceFlush
    \/ Shutdown

\* ------------------------------------------------------------------------
\* DatadogPropagator: values
\* ------------------------------------------------------------------------
\* An integer of w bytes is the sequence of its base-256 digits, least
\* significant first; a byte array ([u8; 8], [u8; 16]) is a sequence of
\* bytes in memory order.  A header value is a sequence of characters.

DATADOG_TRACE_ID_HEADER == "x-datadog-trace-id"
DATADOG_PARENT_ID_HEADER == "x-datadog-parent-id"
DATADOG_SAMPLING_PRIORITY_HEADER == "x-datadog-sampling-priority"

DATADOG_HEADER_FIELDS ==
    {DATADOG_TRACE_ID_HEADER, DATADOG_PARENT_ID_HEADER,
     DATADOG_SAMPLING_PRIORITY_HEADER}

\* TraceFlags::default(), TraceFlags::SAMPLED, TRACE_FLAG_DEFERRED
TRACE_FLAG_DEFAULT == 0
TRACE_FLAG_SAMPLED == 1
TRACE_FLAG_DEFERRED == 2

\* i32::MAX
I32Max == 2147483647

Reverse(s) == [i \in 1..Len(s) |-> s[Len(s) + 1 - i]]

Zeros(k) == [i \in 1..k |-> 0]

DigitChars == <<"0", "1", "2", "3", "4", "5", "6", "7", "8", "9">>

IsDigit(c) == \E d \in 1..10 : DigitChars[d] = c

DigitVal(c) == (CHOOSE d \in 1..10 : DigitChars[d] = c) - 1

AllDigits(str) == \A i \in 1..Len(str) : IsDigit(str[i])

\* v * m + a on a little-endian digit sequence, from digit i on, with the
\* carry that leaves the top digit
RECURSIVE MulAddFrom(_, _, _, _)
MulAddFrom(v, i, m, carry) ==
    IF i > Len(v)
    THEN [val |-> v, carry |-> carry]
    ELSE LET t == v[i] * m + carry
         IN MulAddFrom([v EXCEPT ![i] = t % 256], i + 1, m, t \div 256)

\* the digit loop of from_str_radix for u64: checked_mul(10), checked_add(d)
RECURSIVE ParseU64Digits(_, _, _)
ParseU64Digits(str, i, acc) ==
    IF i > Len(str)
    THEN [ok |-> TRUE, val |-> acc]
    ELSE IF ~IsDigit(str[i])
    THEN [ok |-> FALSE, val |-> Zeros(8)]
    ELSE LET r == MulAddFrom(acc, 1, 10, DigitVal(str[i]))
         IN IF r.carry # 0
            THEN [ok |-> FALSE, val |-> Zeros(8)]
            ELSE ParseU64Digits(str, i + 1, r.val)

\* str.parse::<u64>()
ParseU64(str) ==
    IF str = <<>>
    THEN [ok |-> FALSE, val |-> Zeros(8)]
    ELSE IF str = <<"+">> \/ str = <<"-">>
    THEN [ok |-> FALSE, val |-> Zeros(8)]
    ELSE IF str[1] = "+"
    THEN ParseU64Digits(Tail(str), 1, Zeros(8))
    ELSE ParseU64Digits(str, 1, Zeros(8))

\* the digit loop of from_str_radix for i32: the accumulator goes up for a
\* positive and down for a negative number, with overflow checks
RECURSIVE ParseI32Digits(_, _, _, _)
ParseI32Digits(str, i, acc, positive) ==
    IF i > Len(str)
    THEN [ok |-> TRUE, val |-> acc]
    ELSE IF ~IsDigit(str[i])
    THEN [ok |-> FALSE, val |-> 0]
    ELSE LET d == DigitVal(str[i])
             lim == I32Max \div 10
             over == IF positive
                     THEN acc > lim \/ (acc = lim /\ d > 7)
                     ELSE acc < 0 - lim \/ (acc = 0 - lim /\ d > 8)
         IN IF over
            THEN [ok |-> FALSE, val |-> 0]
            ELSE ParseI32Digits(str, i + 1,
                     IF positive THEN acc * 10 + d ELSE acc * 10 - d,
                     positive)

\* str.parse::<i32>()
ParseI32(str) ==
    IF str = <<>>
    THEN [ok |-> FALSE, val |-> 0]
    ELSE IF str = <<"+">> \/ str = <<"-">>
    THEN [ok |-> FALSE, val |-> 0]
    ELSE IF str[1] = "+"
    THEN ParseI32Digits(Tail(str), 1, 0, TRUE)
    ELSE IF str[1] = "-"
    THEN ParseI32Digits(Tail(str), 1, 0, FALSE)
    ELSE ParseI32Digits(str, 1, 0, TRUE)

\* v divided by 10, from the top digit down: quotient and remainder
RECURSIVE DivTenFrom(_, _, _)
DivTenFrom(v, i, rem) ==
    IF i = 0
    THEN [quot |-> v, rem |-> rem]
    ELSE LET t == rem * 256 + v[i]
         IN DivTenFrom([v EXCEPT ![i] = t \div 10], i - 1, t % 10)

RECURSIVE DecimalDigits(_)
DecimalDigits(v) ==
    IF v = Zeros(Len(v))
    THEN <<>>
    ELSE LET r == DivTenFrom(v, Len(v), 0)
         IN Append(DecimalDigits(r.quot), DigitChars[r.rem + 1])

\* u64::to_string()
U64ToString(v) == IF v = Zeros(Len(v)) THEN <<"0">> ELSE DecimalDigits(v)

\* i32::to_string() of a SamplingPriority discriminant
I32ToString(n) ==
    IF n < 0 THEN <<"-">> \o <<DigitChars[(0 - n) + 1]>> ELSE <<DigitChars[n + 1]>>

\* to_be_bytes / from_be_bytes
ToBeBytes(v) == Reverse(v)
FromBeBytes(b) == Reverse(b)

\* to_ne_bytes / from_ne_bytes on a host of the given byte order
ToNeBytes(v, le) == IF le THEN v ELSE Reverse(v)
FromNeBytes(b, le) == IF le THEN b ELSE Reverse(b)

\* u128::from(id: u64)
U128FromU64(v) == v \o Zeros(8)

\* mutant: the two halves are never swapped
u128_to_u64sNoSwap(n, le) ==
    LET bytes == ToNeBytes(n, le)
    IN <<FromNeBytes(SubSeq(bytes, 1, 8), le),
         FromNeBytes(SubSeq(bytes, 9, 16), le)>>

\* u128_to_u64s
u128_to_u64s(n, le) ==
    LET bytes == ToNeBytes(n, le)
        high0 == SubSeq(bytes, 1, 8)
        low0 == SubSeq(bytes, 9, 16)
        high == IF le THEN low0 ELSE high0
        low == IF le THEN high0 ELSE low0
    IN <<FromNeBytes(high, le), FromNeBytes(low, le)>>

\* TraceId::INVALID, SpanId::INVALID
TraceIdINVALID == Zeros(16)
SpanIdINVALID == Zeros(8)

\* SpanContext::new
SpanContextNew(trace_id, span_id, trace_flags, is_remote) ==
    [trace_id |-> trace_id, span_id |-> span_id,
     trace_flags |-> trace_flags, is_remote |-> is_remote]

\* SpanContext::empty_context()
EmptyContext ==
    SpanContextNew(TraceIdINVALID, SpanIdINVALID, TRACE_FLAG_DEFAULT, FALSE)

\* mutant: a context is valid as soon as its trace id is
IsValidTraceOnly(c) == c.trace_id # TraceIdINVALID

\* SpanContext::is_valid()
IsValid(c) == c.trace_id # TraceIdINVALID /\ c.span_id # SpanIdINVALID

\* SpanContext::is_sampled()
IsSampled(c) == c.trace_flags % 2 = 1

\* mutant: deferred only when the flags are the deferred flag and no more
IsDeferredAlone(flags) == flags = TRACE_FLAG_DEFERRED

\* trace_flags & TRACE_FLAG_DEFERRED == TRACE_FLAG_DEFERRED
IsDeferred(flags) == (flags \div 2) % 2 = 1

\* Extractor::get(key).unwrap_or("")
GetOrEmpty(c, key) == IF key \in DOMAIN c THEN c[key] ELSE <<>>

\* Injector::set(key, value)
Set(c, key, value) ==
    [k \in DOMAIN c \cup {key} |-> IF k = key THEN value ELSE c[k]]

\* ------------------------------------------------------------------------
\* DatadogPropagator: extract
\* ------------------------------------------------------------------------
\* mutant: a trace id that does not parse becomes TraceId::INVALID instead
\* of an error
ExtractTraceIdLenient(str) ==
    LET r == ParseU64(str)
    IN [ok |-> TRUE, val |-> ToBeBytes(U128FromU64(r.val))]

\* extract_trace_id
ExtractTraceId(str) ==
    LET r == ParseU64(str)
    IN [ok |-> r.ok, val |-> ToBeBytes(U128FromU64(r.val))]

\* extract_span_id
ExtractSpanId(str) ==
    LET r == ParseU64(str)
    IN [ok |-> r.ok, val |-> ToBeBytes(r.val)]

\* extract_sampling_priority: Ok for -1, 0, 1, 2
ExtractSamplingPriority(str) ==
    LET r == ParseI32(str)
    IN IF r.ok /\ r.val \in {-1, 0, 1, 2}
       THEN [ok |-> TRUE, val |-> r.val]
       ELSE [ok |-> FALSE, val |-> 0]

\* mutant: a sampling priority that is not one of the four is a rejection
SampledFlagsNoDeferred(sp) ==
    IF sp.ok /\ sp.val \in {1, 2} THEN TRACE_FLAG_SAMPLED
    ELSE TRACE_FLAG_DEFAULT

\* the match on sampling_priority in extract_span_context
SampledFlags(sp) ==
    IF sp.ok /\ sp.val \in {-1, 0} THEN TRACE_FLAG_DEFAULT
    ELSE IF sp.ok /\ sp.val \in {1, 2} THEN TRACE_FLAG_SAMPLED
    ELSE TRACE_FLAG_DEFERRED

\* extract_span_id(..).unwrap_or(SpanId::INVALID)
SpanIdOrInvalid(r) == IF r.ok THEN r.val ELSE SpanIdINVALID

\* mutant: a parent id that does not parse is an error of the extraction
ExtractSpanContextStrict(c) ==
    LET trace_id == ExtractTraceId(GetOrEmpty(c, DATADOG_TRACE_ID_HEADER))
        span_id == ExtractSpanId(GetOrEmpty(c, DATADOG_PARENT_ID_HEADER))
        sampling_priority ==
            ExtractSamplingPriority(
                GetOrEmpty(c, DATADOG_SAMPLING_PRIORITY_HEADER))
        sampled == SampledFlags(sampling_priority)
    IN IF ~trace_id.ok \/ ~span_id.ok
       THEN [ok |-> FALSE, val |-> EmptyContext]
       ELSE [ok |-> TRUE,
             val |-> SpanContextNew(trace_id.val, span_id.val, sampled, TRUE)]

\* extract_span_context
ExtractSpanContext(c) ==
    LET trace_id == ExtractTraceId(GetOrEmpty(c, DATADOG_TRACE_ID_HEADER))
        span_id == SpanIdOrInvalid(
                       ExtractSpanId(GetOrEmpty(c, DATADOG_PARENT_ID_HEADER)))
        sampling_priority ==
            ExtractSamplingPriority(
                GetOrEmpty(c, DATADOG_SAMPLING_PRIORITY_HEADER))
        sampled == SampledFlags(sampling_priority)
    IN IF ~trace_id.ok
       THEN [ok |-> FALSE, val |-> EmptyContext]
       ELSE [ok |-> TRUE,
             val |-> SpanContextNew(trace_id.val, span_id, sampled, TRUE)]

\* extract_with_context: the remote span context of the returned Context
ExtractWithContext(c) ==
    LET extracted == ExtractSpanContext(c)
    IN IF extracted.ok THEN extracted.val ELSE EmptyContext

\* ------------------------------------------------------------------------
\* DatadogPropagator: inject
\* ------------------------------------------------------------------------
\* mutant: inject writes the low-order half of the trace id
InjectedTraceIdLow(c, le) == u128_to_u64s(FromBeBytes(c.trace_id), le)[2]

\* the trace id that inject_context writes
InjectedTraceId(c, le) == u128_to_u64s(FromBeBytes(c.trace_id), le)[1]

\* inject_context
InjectContext(c, injector, le) ==
    IF IsValid(c)
    THEN LET with_trace == Set(injector, DATADOG_TRACE_ID_HEADER,
                               U64ToString(InjectedTraceId(c, le)))
             with_parent == Set(with_trace, DATADOG_PARENT_ID_HEADER,
                                U64ToString(FromBeBytes(c.span_id)))
         IN IF ~IsDeferred(c.trace_flags)
            THEN Set(with_parent, DATADOG_SAMPLING_PRIORITY_HEADER,
                     I32ToString(IF IsSampled(c) THEN 1 ELSE 0))
            ELSE with_parent
    ELSE injector

\* ------------------------------------------------------------------------
\* DatadogPropagator: the calls, on inputs drawn from bounded sets
\* ------------------------------------------------------------------------
Chars1234 == <<"1", "2", "3", "4">>
Chars12 == <<"1", "2">>
CharsGarbage == <<"g", "a", "r", "b", "a", "g", "e">>
\* u64::MAX and u64::MAX + 1 in decimal
CharsU64Max ==
    <<"1", "8", "4", "4", "6", "7", "4", "4", "0", "7",
      "3", "7", "0", "9", "5", "5", "1", "6", "1", "5">>
CharsU64Over ==
    <<"1", "8", "4", "4", "6", "7", "4", "4", "0", "7",
      "3", "7", "0", "9", "5", "5", "1", "6", "1", "6">>
\* i32::MAX + 1 in decimal
CharsI32Over == <<"2", "1", "4", "7", "4", "8", "3", "6", "4", "8">>

TraceIdInputs ==
    {Chars1234, CharsGarbage, <<>>, <<"0">>, <<"+", "7">>, <<"-", "1">>,
     <<"0", "0", "7">>, <<"1", "2", "a">>, CharsU64Max, CharsU64Over}

ParentIdInputs ==
    {Chars12, CharsGarbage, <<>>, <<"0">>, <<"+">>, CharsU64Max, CharsU64Over}

SamplingPriorityInputs ==
    {<<"-", "1">>, <<"0">>, <<"1">>, <<"2">>, <<"3">>, <<"-", "2">>,
     <<"+", "1">>, <<"0", "1">>, <<>>, CharsGarbage, CharsI32Over}

\* the header maps: each of the three headers absent or one of its inputs
HeaderMaps ==
    {m \in UNION {[S -> TraceIdInputs \cup ParentIdInputs
                        \cup SamplingPriorityInputs] :
                  S \in SUBSET DATADOG_HEADER_FIELDS} :
        /\ DATADOG_TRACE_ID_HEADER \in DOMAIN m
               => m[DATADOG_TRACE_ID_HEADER] \in TraceIdInputs
        /\ DATADOG_PARENT_ID_HEADER \in DOMAIN m
               => m[DATADOG_PARENT_ID_HEADER] \in ParentIdInputs
        /\ DATADOG_SAMPLING_PRIORITY_HEADER \in DOMAIN m
               => m[DATADOG_SAMPLING_PRIORITY_HEADER]
                      \in SamplingPriorityInputs}

\* the base-256 digits of a small number, least significant first
RECURSIVE Digits256(_, _)
Digits256(n, k) ==
    IF k = 0 THEN <<>> ELSE <<n % 256>> \o Digits256(n \div 256, k - 1)

\* TraceId::from_u128(hi * 2^64 + lo), SpanId::from_u64(n)
TraceIdFrom(hi, lo) == ToBeBytes(Digits256(lo, 8) \o Digits256(hi, 8))
SpanIdFrom(n) == ToBeBytes(Digits256(n, 8))

\* 0x1234, the value of TraceId::from_hex("1234")
Hex1234 == 4660

TraceIdValues ==
    {TraceIdINVALID, TraceIdFrom(0, 1234), TraceIdFrom(0, Hex1234),
     TraceIdFrom(1, 0), TraceIdFrom(1234, 12), TraceIdFrom(0, 1),
     [i \in 1..16 |-> IF i <= 8 THEN 0 ELSE 255],
     [i \in 1..16 |-> 255]}

SpanIdValues == {SpanIdINVALID, SpanIdFrom(12), [i \in 1..8 |-> 255]}

TraceFlagsValues == 0..3

Contexts ==
    {SpanContextNew(t, s, fl, r) :
        t \in TraceIdValues, s \in SpanIdValues,
        fl \in TraceFlagsValues, r \in BOOLEAN}

\* carriers that inject writes into: empty, or holding earlier headers
Injectors ==
    {m \in HeaderMaps :
        \A k \in DOMAIN m : m[k] \in {<<"2">>, <<"0">>, CharsGarbage}}

PropStart ==
    /\ little \in BOOLEAN
    /\ \/ carrier \in HeaderMaps /\ cx = EmptyContext
       \/ carrier \in Injectors /\ cx \in Contexts
    /\ prop_pc = "start"
    /\ carrier0 = carrier
    /\ cx0 = cx

\* propagator.extract(&carrier)
Extract ==
    /\ UNCHANGED <<procVars, expVars>>
    /\ prop_pc \in {"start", "injected"}
    /\ cx' = ExtractWithContext(carrier)
    /\ prop_pc' = IF prop_pc = "start" THEN "extracted" ELSE "roundtrip"
    /\ UNCHANGED <<little, carrier, carrier0, cx0>>

\* propagator.inject_context(&cx, &mut carrier)
Inject ==
    /\ UNCHANGED <<procVars, expVars>>
    /\ prop_pc \in {"start", "extracted"}
    /\ carrier' = InjectContext(cx, carrier, little)
    /\ prop_pc' = IF prop_pc = "start" THEN "injected" ELSE "forwarded"
    /\ UNCHANGED <<little, cx, carrier0, cx0>>

PropNext == Extract \/ Inject

\* the propagator untouched, on the wasm32 build
PropQuiet ==
    /\ little = TRUE
    /\ carrier = <<>>
    /\ cx = EmptyContext
    /\ prop_pc = "start"
    /\ carrier0 = <<>>
    /\ cx0 = EmptyContext

\* ------------------------------------------------------------------------
\* DatadogExporter: export
\* ------------------------------------------------------------------------
\* longest batch given to export
MaxBatch == 3

NoRequest == <<>>

\* a SpanData: its ids as byte arrays, its status, and whether its times
\* are in order (start_time not before the epoch, end_time not before
\* start_time)
SpanData(trace_id, span_id, parent_span_id, status_code, times_ordered) ==
    [trace_id |-> trace_id, span_id |-> span_id,
     parent_span_id |-> parent_span_id, status_code |-> status_code,
     times_ordered |-> times_ordered]

\* the spans of the batches: three wide trace ids, two of them with the
\* same high-order half
SpanInputs ==
    {SpanData(TraceIdFrom(0, 1234), SpanIdFrom(12), SpanIdINVALID,
              "Unset", TRUE),
     SpanData(TraceIdFrom(0, 1234), SpanIdFrom(13), SpanIdFrom(12),
              "Error", TRUE),
     SpanData(TraceIdFrom(1, 0), SpanIdFrom(17), SpanIdINVALID, "Ok", TRUE),
     SpanData(TraceIdFrom(1, 5), SpanIdFrom(14), SpanIdFrom(12),
              "Error", TRUE),
     SpanData(TraceIdFrom(1, 5), SpanIdFrom(15), SpanIdFrom(14),
              "Unset", TRUE),
     SpanData(TraceIdFrom(1, 5), SpanIdFrom(16), SpanIdFrom(14),
              "Ok", FALSE)}

Batches == UNION {[1..n -> SpanInputs] : n \in 0..MaxBatch}

\* the keys of the HashMap built by into_group_map_by
TraceIds(spans_in) == {spans_in[i].trace_id : i \in 1..Len(spans_in)}

\* the orders in which a HashMap with these keys can be iterated
IterationOrders(keys) ==
    {o \in [1..Cardinality(keys) -> keys] : Range(o) = keys}

\* the spans with one key, in their order in the batch
RECURSIVE GroupOf(_, _)
GroupOf(spans_in, key) ==
    IF spans_in = <<>> THEN <<>>
    ELSE (IF Head(spans_in).trace_id = key THEN <<Head(spans_in)>> ELSE <<>>)
            \o GroupOf(Tail(spans_in), key)

\* the spans whose trace id has the first eight bytes of the key
RECURSIVE GroupOfPrefix(_, _)
GroupOfPrefix(spans_in, key) ==
    IF spans_in = <<>> THEN <<>>
    ELSE (IF SubSeq(Head(spans_in).trace_id, 1, 8) = SubSeq(key, 1, 8)
          THEN <<Head(spans_in)>> ELSE <<>>)
            \o GroupOfPrefix(Tail(spans_in), key)

\* mutant: the spans are grouped by the first eight bytes of the trace id
group_into_tracesByPrefix(spans_in, order) ==
    [i \in 1..Len(order) |-> GroupOfPrefix(spans_in, order[i])]

\* group_into_traces, for one iteration order of the HashMap
group_into_traces(spans_in, order) ==
    [i \in 1..Len(order) |-> GroupOf(spans_in, order[i])]

\* duration_since(..).unwrap() on start_time and end_time
TimesPanic(span) == ~span.times_ordered

\* mutant: only StatusCode::Ok is not an error
ErrorOfNotOk(status_code) == IF status_code = "Ok" THEN 0 ELSE 1

\* the error field of the wire span
ErrorOf(status_code) == IF status_code = "Error" THEN 1 ELSE 0

\* trace_into_dd_tracer_payload: the dd_proto::Span
trace_into_dd_tracer_payload(trace, le) ==
    [type |-> "http",
     trace_id |-> u128_to_u64s(FromBeBytes(trace.trace_id), le)[1],
     span_id |-> FromBeBytes(trace.span_id),
     parent_id |-> FromBeBytes(trace.parent_span_id),
     error |-> ErrorOf(trace.status_code)]

\* the priority and the origin of every chunk
ChunkPriority == 100
ChunkOrigin == "lambda"

\* trace_into_chunk
trace_into_chunk(wire_spans) ==
    [priority |-> ChunkPriority, origin |-> ChunkOrigin, spans |-> wire_spans,
     tags |-> <<>>, dropped_trace |-> FALSE]

\* the chunks that export builds from the traces
ChunksOf(traces, le) ==
    [i \in 1..Len(traces) |->
        trace_into_chunk(
            [j \in 1..Len(traces[i]) |->
                trace_into_dd_tracer_payload(traces[i][j], le)])]

\* trace_into_tracer
trace_into_tracer(chunks) == [language_name |-> "rust", chunks |-> chunks]

\* trace_build
trace_build(tracer) ==
    [traces |-> <<>>, transactions |-> <<>>, tracer_payloads |-> tracer]

\* the request of export: a POST of the payload
RequestOf(spans_in, order, le) ==
    [method |-> "POST",
     content_type |-> "application/x-protobuf",
     body |-> trace_build(
                 <<trace_into_tracer(
                     ChunksOf(group_into_traces(spans_in, order), le))>>)]

\* the exporter before an export call, on the wasm32 build or another
ExportStart ==
    /\ batch \in Batches
    /\ key_valid \in BOOLEAN
    /\ export_pc = "start"
    /\ req = NoRequest
    /\ sends = 0
    /\ export_result = "none"

\* the exporter untouched
ExportQuiet ==
    /\ batch = <<>>
    /\ key_valid = TRUE
    /\ export_pc = "start"
    /\ req = NoRequest
    /\ sends = 0
    /\ export_result = "none"

\* export up to self.client.send(req), where it waits for the response;
\* the traces come in the order in which the HashMap is iterated
ExportSend ==
    /\ UNCHANGED <<procVars, propVars>>
    /\ export_pc = "start"
    /\ \A i \in 1..Len(batch) : ~TimesPanic(batch[i])
    /\ key_valid
    /\ \E order \in IterationOrders(TraceIds(batch)) :
          req' = RequestOf(batch, order, little)
    /\ sends' = sends + 1
    /\ export_pc' = "sending"
    /\ UNCHANGED <<batch, key_valid, export_result>>

\* export when Request::builder() .. body(trace) is an Err: the `?` returns
\* it before any send
ExportBuildErr ==
    /\ UNCHANGED <<procVars, propVars>>
    /\ export_pc = "start"
    /\ \A i \in 1..Len(batch) : ~TimesPanic(batch[i])
    /\ ~key_valid
    /\ export_result' = "build_err"
    /\ export_pc' = "done"
    /\ UNCHANGED <<batch, key_valid, req, sends>>

\* export when a duration_since(..).unwrap() panics while the spans are
\* converted
ExportPanic ==
    /\ UNCHANGED <<procVars, propVars>>
    /\ export_pc = "start"
    /\ \E i \in 1..Len(batch) : TimesPanic(batch[i])
    /\ export_result' = "panic"
    /\ export_pc' = "done"
    /\ UNCHANGED <<batch, key_valid, req, sends>>

\* self.client.send(req).await returns a response or an error
SendReturn(ok) ==
    /\ UNCHANGED <<procVars, propVars>>
    /\ export_pc = "sending"
    /\ export_result' = IF ok THEN "ok" ELSE "send_err"
    /\ export_pc' = "done"
    /\ UNCHANGED <<batch, key_valid, req, sends>>

ExportNext ==
    \/ ExportSend
    \/ ExportBuildErr
    \/ ExportPanic
    \/ \E ok \in BOOLEAN : SendReturn(ok)

\* the span processor under on_end, flush and shutdown calls
Init == ProcInit /\ PropQuiet /\ ExportQuiet

Next == ProcNext

\* the propagator under extract and inject calls
PropInit == ProcNew(MaxFlushSize) /\ PropStart /\ ExportQuiet

PropSpec == PropInit /\ [][PropNext]_vars

\* the exporter under an export call, on a build of either byte order
ExportInit ==
    /\ ProcNew(MaxFlushSize)
    /\ little \in BOOLEAN
    /\ carrier = <<>> /\ carrier0 = <<>>
    /\ cx = EmptyContext /\ cx0 = EmptyContext
    /\ prop_pc = "start"
    /\ ExportStart

ExportSpec == ExportInit /\ [][ExportNext]_vars


Spec == Init /\ [][Next]_vars

\* the span processor when every call in progress gets to run: a lock that
\* becomes free again and again is eventually acquired, a call that holds a
\* lock goes on, and every export call returns
Fairness ==
    /\ \A f \in Flushers :
          /\ SF_vars(FlushLock(f))
          /\ WF_vars(FlushDrain(f))
          /\ SF_vars(FlushExporterLock(f))
          /\ WF_vars(\E ok \in BOOLEAN : ExportReturn(f, ok))
    /\ \A p \in Producers : WF_vars(OnEndPush(p) \/ OnEndPanic(p))

LiveSpec == Init /\ [][Next]_vars /\ Fairness

\* ------------------------------------------------------------------------
\* Properties of the span processor
\* ------------------------------------------------------------------------
Spans == 1..MaxSpans

\* a flush call that has drained its batch and not yet returned
HasBatch(f) == fpc[f] \in {"drained", "exporting"}

\* a flush call that is suspended at an await
Suspended(f) ==
    \/ fpc[f] = "exporting"
    \/ fpc[f] = "drained" /\ exporterLock # 0

RECURSIVE CountInBatches(_, _)
CountInBatches(s, f) ==
    IF f = 0 THEN 0 ELSE Count(to_export[f], s) + CountInBatches(s, f - 1)

\* the number of places that hold span s
Places(s) ==
    Count(spans, s) + CountInBatches(s, NumFlushers)
        + (IF s \in succeeded THEN 1 ELSE 0) + (IF s \in failed THEN 1 ELSE 0)

IsSuffix(s, t) ==
    Len(s) <= Len(t) /\ s = SubSeq(t, Len(t) - Len(s) + 1, Len(t))

\* two flush calls drained one after the other with no push in between, the
\* first from a buffer above the threshold
TwoDrainsOverThreshold ==
    Len(drain_log) = 2 /\ Len(drain_log[1].before) > flush_size

\* C1 as stated, for a threshold N >= 1: with N+K buffered spans (K > 0) and
\* no on_end in between, the first flush drains exactly the N oldest spans
\* and leaves the K newest in order, and the second flush drains exactly
\* those K.
C1_SecondFlushTakesAllK ==
    (flush_size >= 1 /\ TwoDrainsOverThreshold) =>
        LET before == drain_log[1].before
            N == flush_size
        IN /\ drain_log[1].batch = SubSeq(before, 1, N)
           /\ drain_log[1].after = SubSeq(before, N + 1, Len(before))
           /\ drain_log[2].before = drain_log[1].after
           /\ drain_log[2].batch = drain_log[1].after

\* C1 amended: with flush threshold N and N+K buffered spans (K > 0) and no
\* on_end in between, the first flush drains exactly the N oldest spans and
\* leaves the K newest in order, and the second flush drains exactly the
\* min(N, K) oldest of those K (all K only when K <= N), leaving the rest.
C1_ThresholdGatedFlush ==
    TwoDrainsOverThreshold =>
        LET before == drain_log[1].before
            left == drain_log[1].after
            N == flush_size
            K == Len(before) - N
        IN /\ drain_log[1].batch = SubSeq(before, 1, N)
           /\ left = SubSeq(before, N + 1, Len(before))
           /\ Len(left) = K
           /\ drain_log[2].before = left
           /\ drain_log[2].batch = SubSeq(left, 1, Min(N, K))
           /\ drain_log[2].after = SubSeq(left, Min(N, K) + 1, K)

\* C1 witness: threshold 1 and 3 buffered spans; the first flush took one,
\* the second took one more and one span is still buffered
C1_Witness ==
    /\ TwoDrainsOverThreshold
    /\ flush_size = 1
    /\ Len(drain_log[1].before) = 3
    /\ Len(drain_log[2].batch) = 1
    /\ Len(spans) = 1

C3_NoDuplication ==
    /\ \A s \in Spans : Count(handed, s) <= 1
    /\ \A f \in Flushers : \A s \in Spans : Count(to_export[f], s) <= 1
    /\ \A f, g \in Flushers :
          f # g => Range(to_export[f]) \cap Range(to_export[g]) = {}
    /\ \A f \in Flushers : Range(to_export[f]) \cap Range(spans) = {}
    /\ \A f \in Flushers :
          fpc[f] = "drained" => Range(to_export[f]) \cap Range(handed) = {}

\* C3 witness: two flush calls overlap, each with a non-empty batch, while
\* the buffer holds a span
C3_Witness ==
    /\ \A f \in {1, 2} : HasBatch(f) /\ to_export[f] # <<>>
    /\ spans # <<>>

\* C4 as stated: a flush call is suspended only during the transport I/O
\* of its export call, and never while it holds the buffer lock.
C4_SuspendsOnlyInTransport ==
    \A f \in Flushers :
        Suspended(f) => fpc[f] = "exporting" /\ spansLock # FlushHolder(f)

\* C4 amended: a flush call is suspended only while it waits for the
\* exporter mutex or during the transport I/O of its export call, and never
\* while it holds the buffer lock: the write guard is dropped before both,
\* so the lock is free or held by a call in its lock-to-unlock section.
C4_NoLockWhileSuspended ==
    /\ \A f \in Flushers :
          (HasBatch(f) \/ Suspended(f)) => spansLock # FlushHolder(f)
    /\ \A f \in Flushers : spansLock = FlushHolder(f) <=> fpc[f] = "locked"
    /\ \A p \in Producers : spansLock = OnEndHolder(p) <=> ppc[p] = "locked"
    /\ spansLock = NoHolder
          \/ \E f \in Flushers : spansLock = FlushHolder(f)
          \/ \E p \in Producers : spansLock = OnEndHolder(p)

\* C4 witness: one flush call is in its export, another waits for the
\* exporter mutex, and an on_end call has acquired the buffer lock
C4_Witness ==
    \E f, g \in Flushers : \E p \in Producers :
        /\ fpc[f] = "exporting"
        /\ fpc[g] = "drained"
        /\ ppc[p] = "locked"

\* C5: when flush keeps being called and every export returns (and the lock
\* is never poisoned), every span accepted by on_end is eventually handed to
\* an export call, for every flush size that with_flush_size accepts.
C5_EventualExport ==
    ([]~poisoned) =>
        \A s \in Spans : (s \in Range(accepted)) ~> (s \in Range(handed))

\* C6: the batch of a flush is fixed at its drain step; the drain takes a
\* prefix of the buffer; a span pushed later goes to the end of the buffer
\* and into no batch, and the buffer stays in acceptance order.
C6_BatchFixedAtDrain ==
    [][/\ \A f \in Flushers :
             (HasBatch(f) /\ fpc'[f] \in {"drained", "exporting"})
                 => to_export'[f] = to_export[f]
       /\ \A f \in Flushers :
             (fpc[f] = "locked" /\ fpc'[f] = "drained")
                 => /\ spans = to_export'[f] \o spans'
                    /\ Len(to_export'[f]) = Min(Len(spans), flush_size)
       /\ accepted' # accepted
             => /\ spans' = Append(spans, accepted'[Len(accepted')])
                /\ to_export' = to_export
       /\ IsSuffix(spans', accepted')]_vars

\* C6 witness: a flush holds a non-empty batch, and a span accepted after
\* its drain is in the buffer
C6_Witness ==
    /\ \E f \in Flushers : HasBatch(f) /\ to_export[f] # <<>>
    /\ drain_log = <<>>
    /\ spans # <<>>
    /\ Len(accepted) >= 2

\* C7: when the export of a flush fails the caller gets the error and the
\* drained spans are not put back: the buffer is unchanged by the return,
\* and a lost span is never again in the buffer, in a batch, or handed to
\* the exporter a second time.
C7_AtMostOnceOnFailure ==
    [][/\ failed' # failed
             => \E f \in Flushers :
                   /\ fpc[f] = "exporting" /\ fpc'[f] = "idle"
                   /\ returned' = FlushReturn(f, "export_err")
                   /\ failed' = failed \cup Range(to_export[f])
                   /\ spans' = spans
       /\ \A f \in Flushers :
             (/\ fpc[f] = "exporting" /\ fpc'[f] = "idle"
              /\ returned' = FlushReturn(f, "export_err"))
                 => spans' = spans /\ Range(to_export[f]) \subseteq failed'
       /\ \A s \in failed' :
             /\ Count(spans', s) = 0
             /\ CountInBatches(s, NumFlushers)' = 0
             /\ Count(handed', s) = 1
             /\ s \notin succeeded']_vars

\* C7 witness: an export failed and its caller got the error, and a later
\* flush handed other spans to the exporter while the buffer is empty
C7_Witness ==
    /\ failed # {}
    /\ \E f \in Flushers : returned = FlushReturn(f, "export_err")
    /\ spans = <<>>
    /\ Len(handed) > 0
    /\ handed[Len(handed)] \notin failed
    /\ handed[1] \in failed

\* ------------------------------------------------------------------------
\* Properties of the propagator
\* ------------------------------------------------------------------------
\* a decimal numeral without sign and leading zeros
RECURSIVE StripZeros(_)
StripZeros(str) ==
    IF Len(str) > 1 /\ str[1] = "0" THEN StripZeros(Tail(str)) ELSE str

Unsigned(str) == IF str # <<>> /\ str[1] = "+" THEN Tail(str) ELSE str

\* numerals of the same length compared digit by digit
RECURSIVE NumeralLeq(_, _, _)
NumeralLeq(a, b, i) ==
    IF i > Len(a) THEN TRUE
    ELSE IF DigitVal(a[i]) < DigitVal(b[i]) THEN TRUE
    ELSE IF DigitVal(a[i]) > DigitVal(b[i]) THEN FALSE
    ELSE NumeralLeq(a, b, i + 1)

\* the text is an unsigned decimal integer of at most 64 bits
IsU64Decimal(str) ==
    LET digits == Unsigned(str)
        numeral == StripZeros(digits)
    IN /\ digits # <<>>
       /\ AllDigits(digits)
       /\ \/ Len(numeral) < Len(CharsU64Max)
          \/ Len(numeral) = Len(CharsU64Max)
                /\ NumeralLeq(numeral, CharsU64Max, 1)

Usable(c, key) == key \in DOMAIN c /\ IsU64Decimal(c[key])

\* the decimal numeral of the 64-bit number held in a byte array
NumeralOf(bytes) == U64ToString(FromBeBytes(bytes))

\* the flags that a sampling-priority header stands for
FlagsByPriority(c) ==
    IF DATADOG_SAMPLING_PRIORITY_HEADER \notin DOMAIN c
    THEN TRACE_FLAG_DEFERRED
    ELSE LET v == c[DATADOG_SAMPLING_PRIORITY_HEADER]
         IN IF v \in {<<"-", "1">>, <<"0">>} THEN TRACE_FLAG_DEFAULT
            ELSE IF v \in {<<"1">>, <<"2">>, <<"+", "1">>, <<"0", "1">>}
            THEN TRACE_FLAG_SAMPLED
            ELSE TRACE_FLAG_DEFERRED

\* a valid context whose trace id fits in 64 bits, with non-deferred flags
RoundTripInput(c) ==
    /\ IsValid(c)
    /\ SubSeq(c.trace_id, 1, 8) = Zeros(8)
    /\ ~IsDeferred(c.trace_flags)

\* C8: for a valid context with a trace id t that fits in 64 bits, span id s
\* and non-deferred flags, inject writes trace-id = decimal t, parent-id =
\* decimal s and sampling-priority "1" if sampled else "0", and extracting
\* these headers gives back t, s, the sampled bit and deferred = false.
C8_RoundTrip ==
    /\ (prop_pc = "injected" /\ RoundTripInput(cx0)) =>
          /\ DOMAIN carrier = DATADOG_HEADER_FIELDS
          /\ carrier[DATADOG_TRACE_ID_HEADER]
                = NumeralOf(SubSeq(cx0.trace_id, 9, 16))
          /\ carrier[DATADOG_PARENT_ID_HEADER] = NumeralOf(cx0.span_id)
          /\ carrier[DATADOG_SAMPLING_PRIORITY_HEADER]
                = (IF IsSampled(cx0) THEN <<"1">> ELSE <<"0">>)
    /\ (prop_pc = "roundtrip" /\ RoundTripInput(cx0)) =>
          /\ cx.trace_id = cx0.trace_id
          /\ cx.span_id = cx0.span_id
          /\ IsSampled(cx) = IsSampled(cx0)
          /\ ~IsDeferred(cx.trace_flags)

\* C9: when the trace-id header is absent or is not an unsigned 64-bit
\* decimal, extract gives the empty context, whatever the other two headers.
C9_NoTraceIdGivesEmptyContext ==
    (prop_pc = "extracted" /\ ~Usable(carrier0, DATADOG_TRACE_ID_HEADER))
        => cx = EmptyContext

\* C9 witness: the trace id is one above u64::MAX, the other two headers are
\* good, and the empty context was extracted
C9_Witness ==
    /\ prop_pc = "extracted"
    /\ DOMAIN carrier0 = DATADOG_HEADER_FIELDS
    /\ carrier0[DATADOG_TRACE_ID_HEADER] = CharsU64Over
    /\ carrier0[DATADOG_PARENT_ID_HEADER] = Chars12
    /\ carrier0[DATADOG_SAMPLING_PRIORITY_HEADER] = <<"1">>
    /\ cx = EmptyContext

\* what C10 says of the extracted context apart from its validity
PartialExtraction ==
    /\ SubSeq(cx.trace_id, 1, 8) = Zeros(8)
    /\ NumeralOf(SubSeq(cx.trace_id, 9, 16))
          = StripZeros(Unsigned(carrier0[DATADOG_TRACE_ID_HEADER]))
    /\ cx.span_id = SpanIdINVALID
    /\ cx.trace_flags = FlagsByPriority(carrier0)

NoUsableParentId ==
    /\ prop_pc = "extracted"
    /\ Usable(carrier0, DATADOG_TRACE_ID_HEADER)
    /\ ~Usable(carrier0, DATADOG_PARENT_ID_HEADER)

\* C10 as stated, for a non-zero trace id: when the trace-id header parses
\* and the parent-id header is absent or does not parse, extract gives a
\* context with that trace id, the invalid span id, the flags of the
\* sampling-priority header alone (deferred when absent), and the context
\* is valid.
C10_PartialContextIsValid ==
    (NoUsableParentId /\ cx.trace_id # TraceIdINVALID)
        => PartialExtraction /\ IsValid(cx)

\* C10 amended: when the trace-id header parses and the parent-id header is
\* absent or does not parse, extract gives a context with that trace id,
\* the invalid span id and the flags of the sampling-priority header alone
\* (deferred when absent); the context is remote and not the empty context,
\* but it is not valid, and inject writes no header for it.
C10_PartialContext ==
    NoUsableParentId =>
        /\ PartialExtraction
        /\ cx.is_remote
        /\ cx # EmptyContext
        /\ ~IsValid(cx)
        /\ InjectContext(cx, <<>>, little) = <<>>

\* C10 witness: trace id 1234 with a garbage parent id and no sampling
\* priority gives trace id 1234, the invalid span id and deferred flags
C10_Witness ==
    /\ prop_pc = "extracted"
    /\ DOMAIN carrier0 = {DATADOG_TRACE_ID_HEADER, DATADOG_PARENT_ID_HEADER}
    /\ carrier0[DATADOG_TRACE_ID_HEADER] = Chars1234
    /\ carrier0[DATADOG_PARENT_ID_HEADER] = CharsGarbage
    /\ cx = SpanContextNew(TraceIdFrom(0, 1234), SpanIdINVALID,
                           TRACE_FLAG_DEFERRED, TRUE)

\* C11: with a usable trace id, the extracted flags are not-sampled for the
\* priorities -1 and 0, sampled for 1 and 2, and the deferred flag for any
\* other integer, for text that is not an integer and for an absent header;
\* the deferred flag never comes with the sampled bit and is not the
\* not-sampled value.
C11_SamplingPriorityDecoding ==
    (prop_pc = "extracted" /\ Usable(carrier0, DATADOG_TRACE_ID_HEADER)) =>
        /\ cx.trace_flags = FlagsByPriority(carrier0)
        /\ cx.trace_flags
              \in {TRACE_FLAG_DEFAULT, TRACE_FLAG_SAMPLED, TRACE_FLAG_DEFERRED}
        /\ IsDeferred(cx.trace_flags) => ~IsSampled(cx)
        /\ IsDeferred(cx.trace_flags) => cx.trace_flags # TRACE_FLAG_DEFAULT

\* C11 witness: trace id 1234, parent id 12 and the priority 3, which is an
\* integer but none of the four, gave the deferred flag
C11_Witness ==
    /\ prop_pc = "extracted"
    /\ DOMAIN carrier0 = DATADOG_HEADER_FIELDS
    /\ carrier0[DATADOG_TRACE_ID_HEADER] = Chars1234
    /\ carrier0[DATADOG_PARENT_ID_HEADER] = Chars12
    /\ carrier0[DATADOG_SAMPLING_PRIORITY_HEADER] = <<"3">>
    /\ cx.trace_flags = TRACE_FLAG_DEFERRED
    /\ IsValid(cx)

\* a context with the zero trace id or the zero span id
ZeroId(c) == c.trace_id = Zeros(16) \/ c.span_id = Zeros(8)

\* an inject call has returned
Injected == prop_pc \in {"injected", "forwarded"}

\* the carrier holds what it held before the inject call
CarrierUntouched == carrier = carrier0

\* C12: inject on a context that is not valid (the empty context, a zero
\* trace id, or a non-zero trace id with the invalid span id, whatever the
\* flags) leaves the carrier as it was and writes none of the three headers.
C12_InvalidContextWritesNothing ==
    (Injected /\ ZeroId(cx)) => CarrierUntouched

\* C12 witness: a sampled context with trace id 1234 and the invalid span id
\* was injected into a carrier holding an earlier header, which it still
\* holds and nothing more
C12_Witness ==
    /\ prop_pc = "injected"
    /\ cx = SpanContextNew(TraceIdFrom(0, 1234), SpanIdINVALID,
                           TRACE_FLAG_SAMPLED, FALSE)
    /\ carrier0 = (DATADOG_SAMPLING_PRIORITY_HEADER :> <<"2">>)
    /\ carrier = carrier0

\* bit 1 of the flags, the deferred bit
DeferredBit(c) == c.trace_flags \in {2, 3}

\* bit 0 of the flags, the sampled bit
SampledBit(c) == c.trace_flags \in {1, 3}

\* the sampling-priority header is as it was before the inject call
PriorityAsBefore ==
    /\ DATADOG_SAMPLING_PRIORITY_HEADER \in DOMAIN carrier
          <=> DATADOG_SAMPLING_PRIORITY_HEADER \in DOMAIN carrier0
    /\ DATADOG_SAMPLING_PRIORITY_HEADER \in DOMAIN carrier
          => carrier[DATADOG_SAMPLING_PRIORITY_HEADER]
                = carrier0[DATADOG_SAMPLING_PRIORITY_HEADER]

\* C13: inject writes the sampling-priority header exactly when the context
\* is valid and its deferred bit is clear; it then writes "1" when the
\* sampled bit is set and "0" otherwise, so nothing but 0 or 1 is written,
\* and for a valid deferred context it writes the trace-id and parent-id
\* headers only.
C13_PriorityWrittenUnlessDeferred ==
    Injected =>
        /\ (~ZeroId(cx) /\ ~DeferredBit(cx)) =>
              /\ DATADOG_SAMPLING_PRIORITY_HEADER \in DOMAIN carrier
              /\ carrier[DATADOG_SAMPLING_PRIORITY_HEADER]
                    = (IF SampledBit(cx) THEN <<"1">> ELSE <<"0">>)
        /\ (ZeroId(cx) \/ DeferredBit(cx)) => PriorityAsBefore
        /\ (~ZeroId(cx) /\ DeferredBit(cx)) =>
              DOMAIN carrier
                 = DOMAIN carrier0
                      \cup {DATADOG_TRACE_ID_HEADER, DATADOG_PARENT_ID_HEADER}

\* C13 witness: a valid context with both the deferred and the sampled bit
\* was injected into an empty carrier, which now holds the trace-id and
\* parent-id headers and no sampling priority
C13_Witness ==
    /\ prop_pc = "injected"
    /\ ~ZeroId(cx)
    /\ cx.trace_flags = 3
    /\ carrier0 = <<>>
    /\ DOMAIN carrier = {DATADOG_TRACE_ID_HEADER, DATADOG_PARENT_ID_HEADER}

\* the high-order and the low-order 64 bits of a 128-bit identifier given
\* as big-endian bytes, as numbers (least significant digit first)
HighHalf(bytes) == [i \in 1..8 |-> bytes[9 - i]]
LowHalf(bytes) == [i \in 1..8 |-> bytes[17 - i]]

\* the text is the decimal numeral of the 64-bit number: digits only, no
\* sign, no leading zero, and parsing it as a u64 gives the number
IsDecimalOf(str, number) ==
    /\ str # <<>>
    /\ AllDigits(str)
    /\ StripZeros(str) = str
    /\ ParseU64(str) = [ok |-> TRUE, val |-> number]

\* the trace id of the wire span that the exporter builds for a span of
\* this trace
WireTraceId(trace_id, le) ==
    trace_into_dd_tracer_payload(
        SpanData(trace_id, SpanIdINVALID, SpanIdINVALID, "Unset", TRUE),
        le).trace_id

WireSpans ==
    IF req = NoRequest THEN {}
    ELSE LET chunks == req.body.tracer_payloads[1].chunks
         IN UNION {Range(chunks[i].spans) : i \in 1..Len(chunks)}

\* the spans of the batch that have the span id of a wire span
SourcesOf(w) ==
    {s \in Range(batch) : w.span_id = [i \in 1..8 |-> s.span_id[9 - i]]}

\* C15: for every 128-bit trace id n of the batch, u128_to_u64s(n) is
\* [n div 2^64, n mod 2^64] on a host of either byte order, so it depends
\* on n only, and the trace_id of the wire span is the high-order half
\* n div 2^64, the low-order half being dropped.
C15_NarrowingTakesHighHalf ==
    /\ \A s \in Range(batch) :
          LET n == FromBeBytes(s.trace_id)
          IN /\ u128_to_u64s(n, little)
                   = <<HighHalf(s.trace_id), LowHalf(s.trace_id)>>
             /\ u128_to_u64s(n, TRUE) = u128_to_u64s(n, FALSE)
    /\ \A w \in WireSpans :
          /\ SourcesOf(w) # {}
          /\ \A s \in SourcesOf(w) : w.trace_id = HighHalf(s.trace_id)

\* C15 witness: on the little-endian build a span of the trace
\* 1 * 2^64 + 5 was sent with the wire trace id 1
C15_Witness ==
    /\ export_pc = "sending"
    /\ little
    /\ \E w \in WireSpans :
          /\ w.trace_id = Digits256(1, 8)
          /\ \E s \in SourcesOf(w) : s.trace_id = TraceIdFrom(1, 5)

\* the chunks of the request that export built
Chunks == IF req = NoRequest THEN <<>> ELSE req.body.tracer_payloads[1].chunks

\* the number of spans of the batch with this trace id and this span id
InBatch(trace_id, span_id) ==
    Cardinality({i \in 1..Len(batch) :
                    /\ batch[i].trace_id = trace_id
                    /\ batch[i].span_id = span_id})

\* the number of wire spans of a chunk with this span id
InChunk(chunk, span_id) ==
    Cardinality({j \in 1..Len(chunk.spans) :
                    chunk.spans[j].span_id = [i \in 1..8 |-> span_id[9 - i]]})

\* the chunk holds all and only the spans of the batch with this trace id
ChunkIsTrace(chunk, trace_id) ==
    /\ Len(chunk.spans)
          = Cardinality({i \in 1..Len(batch) : batch[i].trace_id = trace_id})
    /\ \A s \in Range(batch) :
          InChunk(chunk, s.span_id)
             = (IF s.trace_id = trace_id THEN InBatch(trace_id, s.span_id)
                ELSE 0)

\* C16: the chunks built by export are one non-empty chunk for each
\* distinct 128-bit trace id of the batch; each chunk holds all and only
\* the spans of the batch with that id, so its spans have one narrowed
\* trace id, and the chunks together hold every span of the batch once.
C16_GroupingIsPartition ==
    req # NoRequest =>
        /\ Len(Chunks) = Cardinality({s.trace_id : s \in Range(batch)})
        /\ \A i \in 1..Len(Chunks) : Chunks[i].spans # <<>>
        /\ \A s \in Range(batch) :
              Cardinality({i \in 1..Len(Chunks) :
                              ChunkIsTrace(Chunks[i], s.trace_id)}) = 1
        /\ \A i \in 1..Len(Chunks) :
              /\ \E s \in Range(batch) : ChunkIsTrace(Chunks[i], s.trace_id)
              /\ \A v, w \in Range(Chunks[i].spans) : v.trace_id = w.trace_id

\* C16 witness: a batch of three spans of two traces that have the same
\* high-order half was sent as two chunks, one of them with two spans
C16_Witness ==
    /\ export_pc = "sending"
    /\ Len(batch) = 3
    /\ {batch[i].trace_id : i \in 1..3} = {TraceIdFrom(1, 0), TraceIdFrom(1, 5)}
    /\ batch[1].trace_id = batch[3].trace_id
    /\ batch[1] # batch[3]
    /\ Len(Chunks) = 2
    /\ \E i \in 1..2 : Len(Chunks[i].spans) = 2

\* the conversion of every span of the batch gets through without a panic
BatchConverts == \A i \in 1..Len(batch) : batch[i].times_ordered

\* C17: every export call makes exactly one client.send call, whatever the
\* batch and whatever the send gives: it never sends again after a failure,
\* returns Ok when the send gives a response and an Err with the cause when
\* the send fails. Stated for the batches whose conversion does not panic.
C17_ExactlyOneSend ==
    /\ sends <= 1
    /\ (export_pc = "done" /\ BatchConverts) =>
          /\ sends = 1
          /\ export_result \in {"ok", "send_err"}

\* this step is the return of a call of the sync force_flush
SyncFlushReturns ==
    /\ returned' # returned
    /\ returned'[1] = "SpanProcessor::force_flush"

\* C18: the sync SpanProcessor::force_flush can be called in every state
\* and returns the unsupported-operation error; it hands nothing to the
\* exporter and leaves the buffer, the batches of the flushes in progress
\* and both locks as they were. Spans leave the buffer only in the drain of
\* an async force_flush, which takes them as its batch.
C18_SyncFlushUnsupported ==
    [][/\ ENABLED SyncForceFlush
       /\ SyncFlushReturns =>
             /\ returned' = SyncFlushReturn("unsupported")
             /\ spans' = spans
             /\ handed' = handed
             /\ to_export' = to_export
             /\ spansLock' = spansLock
             /\ exporterLock' = exporterLock
       /\ spans' # spans /\ Len(spans') <= Len(spans) =>
             \E f \in Flushers :
                /\ fpc[f] = "locked" /\ fpc'[f] = "drained"
                /\ to_export'[f] \o spans' = spans]_vars

\* C18 witness: the sync force_flush returned its error while the buffer
\* held more spans than the flush size and no span had reached the exporter
C18_Witness ==
    /\ returned = SyncFlushReturn("unsupported")
    /\ Len(spans) > flush_size
    /\ flush_size >= 1
    /\ handed = <<>>

\* this step is an on_end call that took a span and returned at once
\* without the write guard
OnEndWithoutLock == created' = created + 1 /\ ppc' = ppc

\* C19: when on_end cannot get the write guard (the lock is poisoned), the
\* error goes to global::handle_error, the span of the call is dropped, and
\* the buffer, the batches and every other span stay as they were; the call
\* returns without a panic, and as the lock stays poisoned the next on_end
\* call is handled in the same way.
C19_OnEndLockFailure ==
    [][/\ OnEndWithoutLock =>
             /\ poisoned
             /\ "on_end" \in reported'
             /\ (created + 1) \notin Range(spans') \cup Range(accepted')
             /\ \A p \in Producers : pspan'[p] # created + 1
             /\ spans' = spans /\ accepted' = accepted
             /\ to_export' = to_export /\ handed' = handed
             /\ spansLock' = spansLock
       /\ poisoned =>
             /\ poisoned'
             /\ spans' = spans
             /\ ~ENABLED (\E p \in Producers : OnEndLock(p))
       /\ (/\ poisoned /\ spansLock = NoHolder /\ created < MaxSpans
           /\ \E p \in Producers : ppc[p] = "idle")
             => ENABLED (OnEndWithoutLock /\ Next)]_vars

\* C19 witness: span 1 is buffered, the push of span 2 poisoned the lock,
\* and the on_end of span 3 reported the lock error and dropped span 3
C19_Witness ==
    /\ poisoned
    /\ reported = {"on_end"}
    /\ created = 3
    /\ spans = <<1>>
    /\ accepted = <<1>>
    /\ \A p \in Producers : ppc[p] = "idle"

\* this step is the return of an async force_flush call that had not got
\* the write guard
FlushReturnsWithoutLock(f) ==
    /\ fpc[f] = "idle"
    /\ returned' # returned
    /\ \E r \in {"ok", "export_err", "lock_err"} : returned' = FlushReturn(f, r)

\* what C20 says of such a call apart from what the caller gets
FlushIsNoOp ==
    /\ poisoned
    /\ "force_flush" \in reported'
    /\ spans' = spans
    /\ to_export' = to_export
    /\ handed' = handed
    /\ fpc' = fpc
    /\ spansLock' = spansLock /\ exporterLock' = exporterLock

\* C20 as stated: when the async force_flush cannot get the write guard,
\* the error goes to global::handle_error and the call is a no-op: nothing
\* is drained, nothing is exported, the buffer is unchanged, and the caller
\* gets an empty result, Ok(()).
C20_LockFailureGivesEmptyResult ==
    [][\A f \in Flushers :
          FlushReturnsWithoutLock(f) =>
              FlushIsNoOp /\ returned' = FlushReturn(f, "ok")]_vars

\* C20 amended: when the async force_flush cannot get the write guard, the
\* error goes to global::handle_error, nothing is drained, nothing is
\* exported, the buffer is unchanged, and the caller gets the error
\* "unable to obtain lock to flush", not an empty result.
C20_LockFailureIsReturned ==
    [][\A f \in Flushers :
          FlushReturnsWithoutLock(f) =>
              FlushIsNoOp /\ returned' = FlushReturn(f, "lock_err")]_vars

\* C20 witness: with spans 1 and 2 buffered and the lock poisoned, an async
\* force_flush returned the lock error; the spans are still buffered and
\* no export call was made
C20_Witness ==
    /\ poisoned
    /\ "force_flush" \in reported
    /\ \E f \in Flushers : returned = FlushReturn(f, "lock_err")
    /\ Len(spans) = 2
    /\ handed = <<>>
    /\ \A f \in Flushers : fpc[f] = "idle"

C22_StatusMapping ==
    \A w \in WireSpans :
        /\ w.error \in {0, 1}
        /\ \A s \in SourcesOf(w) :
              /\ s.status_code = "Error" => w.error = 1
              /\ s.status_code \in {"Ok", "Unset"} => w.error = 0

\* C22 witness: a batch with an Unset, an Error and an Ok span was sent
\* with the error fields 0, 1 and 0
C22_Witness ==
    /\ export_pc = "sending"
    /\ {batch[i].status_code : i \in 1..Len(batch)} = {"Unset", "Error", "Ok"}
    /\ {<<pair[1].status_code, pair[2].error>> :
            pair \in {q \in Range(batch) \X WireSpans : q[1] \in SourcesOf(q[2])}}
          = {<<"Unset", 0>>, <<"Error", 1>>, <<"Ok", 0>>}

\* the place of a span in a sequence that holds it
PlaceIn(seq, s) == CHOOSE i \in 1..Len(seq) : seq[i] = s

\* the sequence is a run of consecutive elements of the other, in order
IsRunOf(s, t) ==
    \E k \in 0..(Len(t) - Len(s)) : s = SubSeq(t, k + 1, k + Len(s))

\* C23 as stated: the batches of overlapping flush calls reach the exporter
\* in the order in which they were drained: for spans a and b with a
\* accepted before b, the export call with a starts no later than the one
\* with b, so the spans are handed to the exporter in acceptance order.
C23_ExportsInAcceptanceOrder ==
    \A i, j \in 1..Len(handed) :
        i < j => PlaceIn(accepted, handed[i]) < PlaceIn(accepted, handed[j])

\* C23 amended: the drain is first-in first-out: the buffer is always the
\* newest accepted spans in acceptance order, every batch is a run of
\* consecutive accepted spans in acceptance order, and a batch drained
\* earlier holds older spans; but overlapping flush calls take the exporter
\* mutex in any order, so their batches can reach the exporter in another
\* order than they were drained.
C23_DrainIsFifo ==
    /\ IsSuffix(spans, accepted)
    /\ \A f \in Flushers : IsRunOf(to_export[f], accepted)
    /\ \A f \in Flushers : \A a \in Range(to_export[f]) :
          \A b \in Range(spans) : PlaceIn(accepted, a) < PlaceIn(accepted, b)
    /\ \A i \in 1..Len(drain_log) :
          drain_log[i].batch
             = SubSeq(drain_log[i].before, 1, Len(drain_log[i].batch))
    /\ \A i \in 1..Len(handed) : handed[i] \in Range(accepted)

\* C23 witness: two flush calls overlapped, and the batch with the span
\* accepted second reached the exporter before the batch with the span
\* accepted and drained first, whose export is now in progress
C23_Witness ==
    /\ Len(handed) = 2
    /\ PlaceIn(accepted, handed[1]) > PlaceIn(accepted, handed[2])
    /\ \E f \in Flushers : fpc[f] = "exporting" /\ to_export[f] = <<handed[2]>>

\* the flush calls whose export call is in progress
Exporting == {f \in Flushers : fpc[f] = "exporting"}

\* C24: at most one export call is in progress on the exporter of the
\* processor, that of the flush call which holds the exporter mutex; a
\* flush call that has drained its batch cannot start its export while
\* another export is in progress, and until then its batch is out of the
\* buffer and has not reached the exporter.
C24_ExportsAreSerialized ==
    /\ Cardinality(Exporting) <= 1
    /\ \A f \in Flushers : exporterLock = f <=> f \in Exporting
    /\ exporterLock = 0 <=> Exporting = {}
    /\ \A f \in Flushers :
          fpc[f] = "drained" =>
              /\ Exporting # {} => ~ENABLED FlushExporterLock(f)
              /\ Exporting = {} => ENABLED FlushExporterLock(f)
              /\ Range(to_export[f]) \cap (Range(spans) \cup Range(handed)) = {}

\* C24 witness: the export of one flush call is in progress with span 1,
\* another flush call holds span 2 in its batch and waits for the exporter
\* mutex, and span 3 is in the buffer
C24_Witness ==
    \E f, g \in Flushers :
        /\ Exporting = {f}
        /\ to_export[f] = <<1>>
        /\ fpc[g] = "drained"
        /\ to_export[g] = <<2>>
        /\ spans = <<3>>
        /\ handed = <<1>>

\* C25: the export call that an async force_flush makes when the buffer is
\* empty, with an empty batch, still sends one request, whose payload has
\* one tracer payload and no chunk, and returns the result of that send,
\* which is the result of the flush.
C25_EmptyBatchStillSends ==
    (batch = <<>> /\ export_pc = "done") =>
        /\ sends = 1
        /\ Len(req.body.tracer_payloads) = 1
        /\ Chunks = <<>>
        /\ export_result \in {"ok", "send_err"}

\* this step is the return of a shutdown call
ShutdownReturns ==
    /\ returned' # returned
    /\ returned'[1] = "SpanProcessor::shutdown"

\* no call on the processor is in progress
NoCallInProgress ==
    /\ \A f \in Flushers : fpc[f] = "idle"
    /\ \A p \in Producers : ppc[p] = "idle"

\* C26: shutdown can be called whenever no other call is in progress and
\* returns Ok; it makes no export call and leaves the buffer and the rest
\* of the processor as they were, so the buffered spans are neither
\* exported nor removed by it and on_end and the async force_flush go on
\* after it as before.
C26_ShutdownChangesNothing ==
    [][/\ NoCallInProgress => ENABLED Shutdown
       /\ ShutdownReturns =>
             /\ returned' = ShutdownReturn("ok")
             /\ spans' = spans /\ accepted' = accepted
             /\ handed' = handed /\ to_export' = to_export
             /\ succeeded' = succeeded /\ failed' = failed
             /\ flush_size' = flush_size /\ poisoned' = poisoned
             /\ spansLock' = spansLock /\ exporterLock' = exporterLock
             /\ fpc' = fpc /\ ppc' = ppc
             /\ reported' = reported]_vars

\* C26 witness: shutdown returned Ok with spans 1 and 2 buffered; after it
\* a flush call drained span 1 and is in its export, span 2 is still
\* buffered and an on_end call has taken the buffer lock
C26_Witness ==
    /\ returned = ShutdownReturn("ok")
    /\ \E f \in Flushers : fpc[f] = "exporting" /\ to_export[f] = <<1>>
    /\ spans = <<2>>
    /\ \E p \in Producers : ppc[p] = "locked"

\* C27: every TraceChunk built by export has the fixed priority 1, the
\* default that the comment in trace_into_chunk states, the fixed origin
\* tag, an empty tag map and dropped_trace = false, whatever its spans.
C27_ChunkPriorityIsDefault ==
    \A i \in 1..Len(Chunks) :
        /\ Chunks[i].priority = 1
        /\ Chunks[i].origin = ChunkOrigin
        /\ Chunks[i].tags = <<>>
        /\ ~Chunks[i].dropped_trace
====
